---- MODULE Spec2Model ----
(***************************************************************************)
(* Model of the Videdit job pipeline: the global queue and its worker      *)
(* (bot.py queue_worker), the operator command stop_all, the downloader    *)
(* with its fallback (download_from_link, download_fallback_slow) and the  *)
(* render task (processor.py process_video_task, render_batch).            *)
(*                                                                         *)
(* Every await of the Python code is a point where another coroutine of    *)
(* the event loop may run, so a handler is cut into one action per         *)
(* stretch of code between two awaits; code without an await (stop_all's   *)
(* drain and flag, the worker's bookkeeping after get()) is one action.    *)
(* Collaborators (the transport, the download process, the HTTP server,    *)
(* the speech service, the media tool) answer nondeterministically.        *)
(***************************************************************************)
EXTENDS Naturals, Integers, Sequences, FiniteSets, TLC

\* ------------------------------------------------------------------ bounds
MaxJobs == 2
MaxCancels == 2
MaxChunks == 1
MaxEdits == 1

Users == {1, 2}
Sources == {"link", "telegram"}
JobIds == 1..MaxJobs
NoJob == 0

\* ------------------------------------------------------ exception messages
\* str(e) of the exceptions the worker's handler can receive.
MsgStopped == "Task Stopped"
MsgDownloadFailed == "Download failed."
MsgTypeError == "process_video_task() takes 5 positional arguments but 6 were given"
MsgCollab == "collaborator error"
MsgNoSegments == "No video segments generated."
MsgJson == "Critical JSON Error: Could not auto-fix file."

\* `"Stopped" in msg` of the handler: the messages that contain the word.
ContainsStopped(msg) == msg \in {MsgStopped}

\* The parameters process_video_task declares and the positional arguments
\* the worker passes it.  Python binds a call only when the counts agree and
\* raises TypeError at the call otherwise.
PvtParams == <<"video_path", "map_path", "output_path", "status_callback", "shared_state">>
CallArgs == <<"input_video_path", "json_path", "output_video_path", "update_status_text", "shared_state", "task_id">>
CallBinds == Len(CallArgs) = Len(PvtParams)

VARIABLES
  submitted,          \* the jobs handle_input has put, in order: job id = index
  task_queue,         \* asyncio.Queue: sequence of job ids
  is_processing,      \* global flag
  current_task_info,  \* NoJob for {}, else the job whose shared_state it holds
  stop_signal,        \* shared_state['stop_signal'] of each job's own dict
  wpc,                \* where the worker coroutine is
  cur,                \* task_data the worker holds (a job id)
  exc,                \* str(e) of the exception being handled, "" if none
  proc,               \* the primary download process
  dl_fail,            \* how the primary strategy was seen to fail
  fb_calls,           \* calls of download_fallback_slow in this download
  chunks,             \* chunks the fallback has written
  dl_ok,              \* the value download_from_link returned
  mapFile,            \* jobs whose map file is on disk
  inputFile,          \* per user, downloads/<user>_input.mp4
  started,            \* history: jobs in the order the worker started them
  drained,            \* history: jobs stop_all removed from the queue
  ended,              \* history: jobs whose finally block has run
  terminal,           \* history: terminal messages the submitter received
  cause,              \* history: why the job's pipeline ended
  collabFail,         \* history: a collaborator failed during the job
  leftover,           \* history: the job's artifacts on disk when it ended
  cancels,            \* number of stop_all commands so far
  progress,           \* history: progress edits of the job's primary download
  user_sessions,      \* per submitter, the collection session (state, source)
  tpc,                \* where process_video_task is
  segs,               \* the segments load_and_heal_json returned
  mapKind,            \* whether the map file parses
  si,                 \* Phase A loop index i
  audio,              \* temp_audio/audio_<key>.wav files on disk
  bi,                 \* Phase B loop index i (0, BATCH_SIZE, ...)
  batch_files,        \* batch indexes appended to batch_files
  rpc,                \* where the render_batch thread is
  rk,                 \* render_batch loop index i
  clips,              \* processed_clips: map indexes of the clips built
  rret,               \* what render_batch returned (0 for None)
  batchDisk,          \* batch_<n>.mp4 files on disk
  manifest,           \* the lines of temp_audio/inputs.txt (<<>>: no file)
  outputFile,         \* the output video exists
  t_exc,              \* str(e) of the exception process_video_task raised
  runs,               \* calls of process_video_task so far
  audioBy,            \* history: the call and segment that wrote each audio file
  batchLog,           \* history: what each render_batch of this call returned
  mergeExit,          \* history: how the ffmpeg merge of this call ended
  mpc,                \* where the progress_monitor task is
  render_running,     \* the flag the monitor's loop tests
  mon_pub,            \* history: status updates the monitor published
  audio_dur,          \* audio_clip.duration of the clip being fitted
  chunk_dur,          \* video_chunk.duration of the clip being fitted
  fitted,             \* how render_batch fitted the slice to the audio
  batches,            \* the slices the Phase B loop has formed
  content,            \* text of the map file load_and_heal_json reads
  loaded              \* what load_and_heal_json gave for it

vars == <<submitted, task_queue, is_processing, current_task_info, stop_signal,
          wpc, cur, exc, proc, dl_fail, fb_calls, chunks, dl_ok, mapFile,
          inputFile, started, drained, ended, terminal, cause, collabFail,
          leftover, cancels, progress, user_sessions, tpc, segs, mapKind, si, audio, bi, batch_files,
          rpc, rk, clips, rret, batchDisk, manifest, outputFile, t_exc, runs,
          audioBy, batchLog, mergeExit, mpc, render_running, mon_pub,
          audio_dur, chunk_dur, fitted, batches, content, loaded>>

\* Variables of the specifications of single functions.
unitVars == <<audio_dur, chunk_dur, fitted, batches, content, loaded>>
taskHist == <<audioBy, batchLog, mergeExit>>
monVars == <<mpc, render_running, mon_pub>>
taskVars == <<tpc, segs, mapKind, si, audio, bi, batch_files, rpc, rk, clips,
              rret, batchDisk, manifest, outputFile, t_exc, runs, taskHist,
              monVars, unitVars>>
workerVars == <<submitted, task_queue, is_processing, current_task_info, wpc, cur,
                exc, proc, dl_fail, fb_calls, chunks, dl_ok, mapFile, inputFile,
                started, drained, ended, terminal, cause, collabFail, leftover,
                cancels, progress, user_sessions>>

queueVars == <<submitted, task_queue, drained, cancels>>
dlVars == <<proc, dl_fail, fb_calls, chunks, dl_ok>>
histVars == <<started, ended, terminal, leftover>>

\* user_sessions.get(uid) is None.
NoSession == [state |-> "none", source |-> "none"]

\* ------------------------------------------------------------------- Init
\* load_and_heal_json has not been called.
NotLoaded == [result |-> "none", message |-> <<>>, diagnostic |-> ""]

\* No single function is being applied.
UnitIdle ==
  /\ audio_dur = 0
  /\ chunk_dur = 0
  /\ fitted = [mode |-> "none", loops |-> 0, duration |-> 0]
  /\ batches = <<>>
  /\ content = <<>>
  /\ loaded = NotLoaded

\* No call of process_video_task has been made.
TaskIdle ==
  /\ tpc = "none"
  /\ segs = <<>>
  /\ mapKind = "ok"
  /\ si = 0
  /\ audio = {}
  /\ bi = 0
  /\ batch_files = <<>>
  /\ rpc = "none"
  /\ rk = 0
  /\ clips = <<>>
  /\ rret = 0
  /\ batchDisk = {}
  /\ manifest = <<>>
  /\ outputFile = FALSE
  /\ t_exc = ""
  /\ runs = 0
  /\ audioBy = {}
  /\ batchLog = <<>>
  /\ mergeExit = "none"
  /\ mpc = "none"
  /\ render_running = FALSE
  /\ mon_pub = 0

\* The globals of bot.py after import, the worker about to wait on the queue.
WorkerIdle ==
  /\ submitted = <<>>
  /\ task_queue = <<>>
  /\ is_processing = FALSE
  /\ current_task_info = NoJob
  /\ stop_signal = [j \in JobIds |-> FALSE]
  /\ wpc = "get"
  /\ cur = NoJob
  /\ exc = ""
  /\ proc = "none"
  /\ dl_fail = "none"
  /\ fb_calls = 0
  /\ chunks = 0
  /\ dl_ok = FALSE
  /\ mapFile = {}
  /\ inputFile = [u \in Users |-> "none"]
  /\ started = <<>>
  /\ drained = {}
  /\ ended = {}
  /\ terminal = [j \in JobIds |-> <<>>]
  /\ cause = [j \in JobIds |-> "none"]
  /\ collabFail = [j \in JobIds |-> FALSE]
  /\ leftover = [j \in JobIds |-> {}]
  /\ cancels = 0
  /\ progress = 0
  /\ user_sessions = [u \in Users |-> NoSession]

Init == WorkerIdle /\ TaskIdle /\ UnitIdle

User(j) == submitted[j].user
Source(j) == submitted[j].source

\* ---------------------------------------------------------------- helpers
\* raise Exception(msg) inside the worker's try: control goes to the handler.
Raise(msg) ==
  /\ wpc' = "except"
  /\ exc' = msg

\* A collaborator call of the current job failed.
Failed == collabFail' = [collabFail EXCEPT ![cur] = TRUE]

\* The pipeline of the current job ends for reason r (the first one counts).
EndsBy(r) == cause' = [cause EXCEPT ![cur] = IF @ = "none" THEN r ELSE @]

\* ---------------------------------------------------------- handle_input
\* STATE_WAIT_NAME branch, await task_queue.put(sess["data"]): the collected
\* job (map already saved by handle_doc) is put on the queue.
Put(u, s) ==
  /\ Len(submitted) < MaxJobs
  /\ submitted' = Append(submitted, [user |-> u, source |-> s])
  /\ task_queue' = Append(task_queue, Len(submitted) + 1)
  /\ mapFile' = mapFile \cup {Len(submitted) + 1}
  /\ UNCHANGED <<is_processing, current_task_info, stop_signal, wpc, cur, exc,
                 dlVars, inputFile, histVars, cause, collabFail, drained, cancels>>
  /\ UNCHANGED <<progress, taskVars>>

\* A submitter completes a submission: the put, with the sessions left out.
Enqueue(u, s) ==
  /\ Put(u, s)
  /\ UNCHANGED user_sessions

\* --------------------------------------------------------------- stop_all
\* Mutant: the flag of the job the worker took last, in flight or not.
StopTarget_Last == cur

\* The job whose flag stop_all raises, NoJob if none.
StopTarget ==
  IF is_processing /\ current_task_info # NoJob THEN current_task_info ELSE NoJob

\* Mutant: an `if` in place of the drain loop's `while`.
Drain_One(q) == IF q = <<>> THEN q ELSE Tail(q)

\* while not task_queue.empty(): task_queue.get_nowait()
RECURSIVE Drain(_)
Drain(q) == IF q = <<>> THEN q ELSE Drain(Tail(q))

StopAll ==
  /\ cancels < MaxCancels
  /\ cancels' = cancels + 1
  /\ drained' = drained \cup {task_queue[i] : i \in 1..Len(task_queue)}
  /\ task_queue' = Drain(task_queue)
  /\ stop_signal' = IF StopTarget # NoJob
                    THEN [stop_signal EXCEPT ![StopTarget] = TRUE]
                    ELSE stop_signal
  /\ UNCHANGED <<submitted, is_processing, current_task_info, wpc, cur, exc,
                 dlVars, mapFile, inputFile, histVars, cause, collabFail>>
  /\ UNCHANGED <<progress, user_sessions, taskVars>>

\* ----------------------------------------------------------- queue_worker
\* Mutant: get() hands out the newest job.
GetItem_Last(q) == q[Len(q)]

\* The job get() hands the worker.
GetItem(q) == q[1]

\* The queue once get() has removed its head.
GetRest(q) == SubSeq(q, 2, Len(q))

\* task_queue.get() returns; flag, fresh shared_state, current_task_info.
WorkerGet ==
  /\ wpc = "get"
  /\ task_queue # <<>>
  /\ cur' = GetItem(task_queue)
  /\ task_queue' = GetRest(task_queue)
  /\ is_processing' = TRUE
  /\ stop_signal' = [stop_signal EXCEPT ![GetItem(task_queue)] = FALSE]
  /\ current_task_info' = GetItem(task_queue)
  /\ started' = Append(started, GetItem(task_queue))
  /\ wpc' = "start_edit"
  /\ exc' = ""
  /\ proc' = "none" /\ dl_fail' = "none" /\ fb_calls' = 0 /\ chunks' = 0
  /\ progress' = 0
  /\ dl_ok' = FALSE
  /\ UNCHANGED <<submitted, drained, cancels, mapFile, inputFile, ended,
                 terminal, leftover, cause, collabFail>>
  /\ UNCHANGED <<user_sessions, taskVars>>

\* await status_msg.edit("Starting Task!")
WStartEdit ==
  /\ wpc = "start_edit"
  /\ \/ /\ wpc' = "dl_edit"
        /\ UNCHANGED <<exc, cause, collabFail>>
     \/ /\ Raise(MsgCollab) /\ Failed /\ EndsBy("other")
  /\ UNCHANGED <<queueVars, is_processing, current_task_info, stop_signal, cur,
                 dlVars, mapFile, inputFile, histVars>>
  /\ UNCHANGED <<progress, user_sessions, taskVars>>

\* await status_msg.edit("Starting Download...") / ("Downloading from Telegram...")
WDlEdit ==
  /\ wpc = "dl_edit"
  /\ \/ /\ wpc' = IF Source(cur) = "link" THEN "dl_setup" ELSE "tg_download"
        /\ UNCHANGED <<exc, cause, collabFail>>
     \/ /\ Raise(MsgCollab) /\ Failed /\ EndsBy("other")
  /\ UNCHANGED <<queueVars, is_processing, current_task_info, stop_signal, cur,
                 dlVars, mapFile, inputFile, histVars>>
  /\ UNCHANGED <<progress, user_sessions, taskVars>>

\* await video_message.download(...): the transport writes the file or raises.
WTgDownload ==
  /\ wpc = "tg_download"
  /\ \/ /\ inputFile' = [inputFile EXCEPT ![User(cur)] = "complete"]
        /\ wpc' = "check_stop"
        /\ UNCHANGED <<exc, cause, collabFail>>
     \/ /\ inputFile' = [inputFile EXCEPT ![User(cur)] = "partial"]
        /\ Raise(MsgCollab) /\ Failed /\ EndsBy("other")
  /\ UNCHANGED <<queueVars, is_processing, current_task_info, stop_signal, cur,
                 dlVars, mapFile, histVars>>
  /\ UNCHANGED <<progress, user_sessions, taskVars>>

\* ------------------------------------------------------ download_from_link
\* download_from_link / download_fallback_slow return v to the worker.
DlReturn(v) ==
  /\ dl_ok' = v
  /\ wpc' = "dl_ret"

\* os.makedirs; a stale file at dest_path is removed.
DlSetup ==
  /\ wpc = "dl_setup"
  /\ inputFile' = [inputFile EXCEPT ![User(cur)] = "none"]
  /\ wpc' = "dl_launch"
  /\ UNCHANGED <<queueVars, is_processing, current_task_info, stop_signal, cur,
                 exc, dlVars, mapFile, histVars, cause, collabFail>>
  /\ UNCHANGED <<progress, user_sessions, taskVars>>

\* The except clause of download_from_link: the fallback is called.
CallFallback ==
  /\ fb_calls' = fb_calls + 1
  /\ wpc' = "fb_get"

\* await asyncio.create_subprocess_exec(...): the process starts, or the
\* launch raises and the except clause calls the fallback.
DlLaunch ==
  /\ wpc = "dl_launch"
  /\ \/ /\ proc' = "running"
        /\ wpc' = "dl_poll"
        /\ UNCHANGED <<dl_fail, fb_calls, collabFail>>
     \/ /\ dl_fail' = "launch"
        /\ CallFallback
        /\ Failed
        /\ UNCHANGED proc
  /\ UNCHANGED <<queueVars, is_processing, current_task_info, stop_signal, cur,
                 exc, chunks, dl_ok, mapFile, inputFile, histVars, cause>>
  /\ UNCHANGED <<progress, user_sessions, taskVars>>

\* Mutant: the process is left running.
Kill_Not == proc

\* process.kill() in its try/except: a process that has exited stays so.
Kill == IF proc = "running" THEN "killed" ELSE proc

\* Top of the read loop: the stop flag is polled; process.kill(); return False.
DlPoll ==
  /\ wpc = "dl_poll"
  /\ IF stop_signal[cur]
     THEN /\ proc' = Kill
          /\ DlReturn(FALSE)
          /\ EndsBy("cancel")
     ELSE /\ wpc' = "dl_read"
          /\ UNCHANGED <<proc, dl_ok, cause>>
  /\ UNCHANGED <<queueVars, is_processing, current_task_info, stop_signal, cur,
                 exc, dl_fail, fb_calls, chunks, mapFile, inputFile, histVars,
                 collabFail>>
  /\ UNCHANGED <<progress, user_sessions, taskVars>>

\* await process.stdout.readline(): a line while the process runs, with or
\* without a percentage that is due for display, or the end of the stream
\* once it has exited.
DlRead ==
  /\ wpc = "dl_read"
  /\ \/ /\ proc = "running"
        /\ wpc' = "dl_poll"
     \/ /\ proc = "running"
        /\ progress < MaxEdits
        /\ wpc' = "dl_progress"
     \/ /\ proc \in {"exit0", "exitN"}
        /\ wpc' = "dl_wait"
  /\ UNCHANGED <<queueVars, is_processing, current_task_info, stop_signal, cur,
                 exc, dlVars, mapFile, inputFile, histVars, cause, collabFail>>
  /\ UNCHANGED <<progress, user_sessions, taskVars>>

\* await status_msg.edit("Downloading (High Speed)...") in its try/except:
\* the progress update is published, or the edit raises and is dropped.
DlProgress ==
  /\ wpc = "dl_progress"
  /\ \/ /\ progress' = progress + 1
        /\ UNCHANGED collabFail
     \/ /\ Failed
        /\ UNCHANGED progress
  /\ wpc' = "dl_poll"
  /\ UNCHANGED <<queueVars, is_processing, current_task_info, stop_signal, cur,
                 exc, dlVars, mapFile, inputFile, histVars, cause>>
  /\ UNCHANGED <<user_sessions, taskVars>>

\* process.returncode == 0 and os.path.exists(dest_path)
PrimarySucceeded == proc = "exit0" /\ inputFile[User(cur)] # "none"

\* await process.wait(); the success check; on failure stderr is read.
DlCheck ==
  /\ wpc = "dl_wait"
  /\ IF PrimarySucceeded
     THEN /\ DlReturn(TRUE)
          /\ UNCHANGED dl_fail
     ELSE /\ dl_fail' = "exit"
          /\ wpc' = "dl_switch"
          /\ UNCHANGED dl_ok
  /\ UNCHANGED <<queueVars, is_processing, current_task_info, stop_signal, cur,
                 exc, proc, fb_calls, chunks, mapFile, inputFile, histVars,
                 cause, collabFail>>
  /\ UNCHANGED <<progress, user_sessions, taskVars>>

\* Mutant: the except clause gives up instead of calling the fallback.
SwitchNotifyRaised_NoFallback == DlReturn(FALSE) /\ UNCHANGED fb_calls

\* The status edit before the fallback raised: control is in the except
\* clause of download_from_link.
SwitchNotifyRaised == CallFallback /\ UNCHANGED dl_ok

\* await status_msg.edit("High Speed failed. Switching ..."), then the
\* fallback; if the edit raises, the except clause calls the fallback.
DlSwitch ==
  /\ wpc = "dl_switch"
  /\ \/ /\ CallFallback
        /\ UNCHANGED <<dl_ok, collabFail>>
     \/ /\ SwitchNotifyRaised
        /\ Failed
  /\ UNCHANGED <<queueVars, is_processing, current_task_info, stop_signal, cur,
                 exc, proc, dl_fail, chunks, mapFile, inputFile, histVars, cause>>
  /\ UNCHANGED <<progress, user_sessions, taskVars>>

\* ---------------------------------------------------- the primary process
\* The download process writes part of the file.
ProcWrite ==
  /\ proc = "running"
  /\ inputFile[User(cur)] = "none"
  /\ inputFile' = [inputFile EXCEPT ![User(cur)] = "partial"]
  /\ UNCHANGED <<queueVars, is_processing, current_task_info, stop_signal, wpc,
                 cur, exc, dlVars, mapFile, histVars, cause, collabFail>>
  /\ UNCHANGED <<progress, user_sessions, taskVars>>

\* The download process exits: code 0 with the whole file, or a non-zero
\* code with whatever it had written.
ProcExit ==
  /\ proc = "running"
  /\ \/ /\ proc' = "exit0"
        /\ inputFile' = [inputFile EXCEPT ![User(cur)] = "complete"]
        /\ UNCHANGED collabFail
     \/ /\ proc' = "exitN"
        /\ Failed
        /\ UNCHANGED inputFile
  /\ UNCHANGED <<queueVars, is_processing, current_task_info, stop_signal, wpc,
                 cur, exc, dl_fail, fb_calls, chunks, dl_ok, mapFile, histVars,
                 cause>>
  /\ UNCHANGED <<progress, user_sessions, taskVars>>

\* -------------------------------------------------- download_fallback_slow
\* session.get(url): a connection error (caught: return False), a status
\* other than 200 (return False), or 200.
FbGet ==
  /\ wpc = "fb_get"
  /\ \/ /\ wpc' = "fb_open"
        /\ UNCHANGED <<dl_ok, collabFail>>
     \/ /\ DlReturn(FALSE)
        /\ Failed
  /\ UNCHANGED <<queueVars, is_processing, current_task_info, stop_signal, cur,
                 exc, proc, dl_fail, fb_calls, chunks, mapFile, inputFile,
                 histVars, cause>>
  /\ UNCHANGED <<progress, user_sessions, taskVars>>

\* aiofiles.open(dest_path, 'wb'): the file is created or truncated.
FbOpen ==
  /\ wpc = "fb_open"
  /\ inputFile' = [inputFile EXCEPT ![User(cur)] = "partial"]
  /\ wpc' = "fb_iter"
  /\ UNCHANGED <<queueVars, is_processing, current_task_info, stop_signal, cur,
                 exc, dlVars, mapFile, histVars, cause, collabFail>>
  /\ UNCHANGED <<progress, user_sessions, taskVars>>

\* One turn of `async for chunk`: a chunk arrives (stop flag polled, then the
\* chunk is written), the body ends (return True), or the read, the write or
\* the progress call raises (caught: return False).
FbIter ==
  /\ wpc = "fb_iter"
  /\ \/ /\ chunks < MaxChunks
        /\ IF stop_signal[cur]
           THEN /\ DlReturn(FALSE)
                /\ EndsBy("cancel")
                /\ UNCHANGED chunks
           ELSE /\ chunks' = chunks + 1
                /\ UNCHANGED <<wpc, dl_ok, cause>>
        /\ UNCHANGED <<inputFile, collabFail>>
     \/ /\ DlReturn(TRUE)
        /\ inputFile' = [inputFile EXCEPT ![User(cur)] = "complete"]
        /\ UNCHANGED <<chunks, cause, collabFail>>
     \/ /\ DlReturn(FALSE)
        /\ Failed
        /\ UNCHANGED <<chunks, cause, inputFile>>
  /\ UNCHANGED <<queueVars, is_processing, current_task_info, stop_signal, cur,
                 exc, proc, dl_fail, fb_calls, mapFile, histVars>>
  /\ UNCHANGED <<progress, user_sessions, taskVars>>

\* ------------------------------------------------ queue_worker, continued
\* if not success: raise Exception("Download failed.")
WDlResult ==
  /\ wpc = "dl_ret"
  /\ IF dl_ok
     THEN /\ wpc' = "check_stop"
          /\ UNCHANGED <<exc, cause>>
     ELSE /\ Raise(MsgDownloadFailed)
          /\ EndsBy("other")
  /\ UNCHANGED <<queueVars, is_processing, current_task_info, stop_signal, cur,
                 dlVars, mapFile, inputFile, histVars, collabFail>>
  /\ UNCHANGED <<progress, user_sessions, taskVars>>

\* if shared_state['stop_signal']: raise Exception("Task Stopped")
WCheckStop ==
  /\ wpc = "check_stop"
  /\ IF stop_signal[cur]
     THEN Raise(MsgStopped) /\ EndsBy("cancel")
     ELSE wpc' = "process" /\ UNCHANGED <<exc, cause>>
  /\ UNCHANGED <<queueVars, is_processing, current_task_info, stop_signal, cur,
                 dlVars, mapFile, inputFile, histVars, collabFail>>
  /\ UNCHANGED <<progress, user_sessions, taskVars>>

\* await process_video_task(input, map, output, update_status_text,
\* shared_state, task_id): the call binds its arguments or raises TypeError.
WProcess ==
  /\ wpc = "process"
  /\ IF CallBinds
     THEN wpc' = "in_task" /\ UNCHANGED <<exc, cause>>
     ELSE Raise(MsgTypeError) /\ EndsBy("other")
  /\ UNCHANGED <<queueVars, is_processing, current_task_info, stop_signal, cur,
                 dlVars, mapFile, inputFile, histVars, collabFail>>
  /\ UNCHANGED <<progress, user_sessions, taskVars>>

\* The terminal message the handler chooses for str(e).
TerminalFor(msg) == IF ContainsStopped(msg) THEN "stopped" ELSE "error"

\* except Exception as e: the terminal status edit, which the transport
\* accepts or which raises out of the handler (the cleanup below it is
\* skipped and the exception leaves the loop after the finally block).
WExcept ==
  /\ wpc = "except"
  /\ \/ /\ terminal' = [terminal EXCEPT ![cur] = Append(@, TerminalFor(exc))]
        /\ wpc' = "cleanup"
        /\ UNCHANGED collabFail
     \/ /\ wpc' = "finally_raising"
        /\ Failed
        /\ UNCHANGED terminal
  /\ UNCHANGED <<queueVars, is_processing, current_task_info, stop_signal, cur,
                 exc, dlVars, mapFile, inputFile, started, ended, leftover, cause>>
  /\ UNCHANGED <<progress, user_sessions, taskVars>>

\* clean_up([json_path, <user>_input.mp4]) of the handler.
WCleanup ==
  /\ wpc = "cleanup"
  /\ mapFile' = mapFile \ {cur}
  /\ inputFile' = [inputFile EXCEPT ![User(cur)] = "none"]
  /\ wpc' = "finally"
  /\ UNCHANGED <<queueVars, is_processing, current_task_info, stop_signal, cur,
                 exc, dlVars, histVars, cause, collabFail>>
  /\ UNCHANGED <<progress, user_sessions, taskVars>>

\* The artifacts of job j that are on disk.
Artifacts(j) ==
  (IF j \in mapFile THEN {"map"} ELSE {})
    \cup (IF inputFile[User(j)] # "none" THEN {"input"} ELSE {})

\* finally: the flag and current_task_info are cleared and the submitter's
\* entry of user_sessions is popped; the loop goes on,
\* or the exception that left the handler ends the worker coroutine.
WFinally ==
  /\ wpc \in {"finally", "finally_raising"}
  /\ is_processing' = FALSE
  /\ current_task_info' = NoJob
  /\ ended' = ended \cup {cur}
  /\ leftover' = [leftover EXCEPT ![cur] = Artifacts(cur)]
  /\ wpc' = IF wpc = "finally" THEN "get" ELSE "dead"
  /\ UNCHANGED <<queueVars, stop_signal, cur, exc, dlVars, mapFile, inputFile,
                 started, terminal, cause, collabFail>>
  /\ user_sessions' = [user_sessions EXCEPT ![User(cur)] = NoSession]
  /\ UNCHANGED <<progress, taskVars>>

\* ===================================================== process_video_task
MaxSegs == 2
MaxRuns == 2
BATCH_SIZE == 10

NoId == 0
SegIds == {NoId, 1}

\* A timestamp field of a segment: absent, or the parts of the string
\* between its colons; NaN is a part that int() or float() rejects.
NaN == -1
Absent == [present |-> FALSE, parts |-> <<>>]
Stamp(ps) == [present |-> TRUE, parts |-> ps]
\* The start_time and end_time of a segment: start missing, start before
\* end, start after end, end not a timestamp.
Spans == {<<Absent, Stamp(<<0, 2>>)>>,
          <<Stamp(<<0, 1>>), Stamp(<<0, 2>>)>>,
          <<Stamp(<<0, 0, 3>>), Stamp(<<0, 2>>)>>,
          <<Stamp(<<0, 1>>), Stamp(<<0, NaN>>)>>}

\* parse_time(time_str), in seconds: 0 for anything but two or three
\* numeric parts.
parse_time(ps) ==
  IF \E i \in DOMAIN ps : ps[i] = NaN THEN 0
  ELSE IF Len(ps) = 3 THEN ps[1] * 3600 + ps[2] * 60 + ps[3]
  ELSE IF Len(ps) = 2 THEN ps[1] * 60 + ps[2]
  ELSE 0

\* seg.get('start_time', '0:00'), seg.get('end_time', '0:00')
GetStamp(field) == IF field.present THEN field.parts ELSE <<0, 0>>
start_t(seg) == parse_time(GetStamp(seg.start))
end_t(seg) == parse_time(GetStamp(seg.end))

\* A segment of the map: its id field (NoId if absent), whether its
\* explanation_text is non-blank, its start_time and end_time fields.
Segments ==
  {[id |-> d, text |-> t, start |-> sp[1], end |-> sp[2]] :
     d \in SegIds, t \in BOOLEAN, sp \in Spans}
ShortMaps == UNION {[1..n -> Segments] : n \in 0..MaxSegs}

\* Maps of more than one batch: BATCH_SIZE - 1 segments with no id, no text
\* and no timestamps after the first of MaxSegs + 1 segments that have an
\* id, text and a start before their end.
Filler == [id |-> NoId, text |-> FALSE, start |-> Absent, end |-> Absent]
Spread(m) ==
  <<m[1]>> \o [i \in 1..(BATCH_SIZE - 1) |-> Filler] \o SubSeq(m, 2, Len(m))
Plain ==
  {s \in Segments : /\ s.id # NoId
                    /\ s.text
                    /\ s.start = Stamp(<<0, 1>>)
                    /\ s.end = Stamp(<<0, 2>>)}
LongMaps == {Spread(m) : m \in [1..(MaxSegs + 1) -> Plain]}
Maps == ShortMaps \cup LongMaps

Total == Len(segs)
Stop == stop_signal[cur]
TaskFrame == UNCHANGED <<workerVars, unitVars>>

\* f"audio_{seg.get('id', i)}.wav" of Phase A.
SynthKey(seg, i) ==
  IF seg.id = NoId THEN [kind |-> "n", a |-> i, b |-> 0]
                   ELSE [kind |-> "n", a |-> seg.id, b |-> 0]

\* f"audio_{seg.get('id', f'b{batch_index}_{i}')}.wav" of render_batch.
RenderKey(seg, batch_index, i) ==
  IF seg.id = NoId THEN [kind |-> "b", a |-> batch_index, b |-> i]
                   ELSE [kind |-> "n", a |-> seg.id, b |-> 0]

\* An exception leaves process_video_task.
TRaise(msg) ==
  /\ tpc' = "raised"
  /\ t_exc' = msg

\* process_video_task is called with its five parameters: a parsed-or-not
\* map, a fresh shared_state; the disk is as earlier calls left it.
TaskCall(m, k) ==
  /\ wpc = "in_task"
  /\ tpc \in {"none", "returned", "raised"}
  /\ runs < MaxRuns
  /\ runs' = runs + 1
  /\ segs' = m
  /\ mapKind' = k
  /\ stop_signal' = [stop_signal EXCEPT ![cur] = FALSE]
  /\ tpc' = "load"
  /\ si' = 0 /\ bi' = 0 /\ batch_files' = <<>>
  /\ rpc' = "none" /\ rk' = 0 /\ clips' = <<>> /\ rret' = 0
  /\ t_exc' = ""
  /\ batchLog' = <<>>
  /\ mergeExit' = "none"
  /\ mpc' = "none" /\ render_running' = FALSE /\ mon_pub' = 0
  /\ UNCHANGED <<audio, audioBy, batchDisk, manifest, outputFile>>
  /\ TaskFrame

\* stop_all sets shared_state['stop_signal'] while the task is running.
TaskCancel ==
  /\ tpc \notin {"none", "returned", "raised"}
  /\ ~Stop
  /\ stop_signal' = [stop_signal EXCEPT ![cur] = TRUE]
  /\ UNCHANGED taskVars
  /\ TaskFrame

\* status_callback("Loading Resources..."); load_and_heal_json(map_path).
TLoad ==
  /\ tpc = "load"
  /\ IF mapKind = "bad"
     THEN TRaise(MsgJson)
     ELSE tpc' = "synth" /\ UNCHANGED t_exc
  /\ UNCHANGED <<segs, mapKind, si, audio, bi, batch_files, rpc, rk, clips, rret,
                 batchDisk, manifest, outputFile, runs, stop_signal, taskHist>>
  /\ UNCHANGED monVars
  /\ TaskFrame

\* Mutant: the finally leaves the monitor task alone.
Cancel_Not == mpc

\* The `finally` of the batch loop: render_running = False and
\* monitor_task.cancel().  A monitor that has not run yet or sleeps is ended
\* by the CancelledError; one that awaits status_callback has it swallowed
\* by the bare except around the edit and goes on to its loop test.
Cancel ==
  CASE mpc \in {"created", "sleep"} -> "done"
    [] mpc = "edit" -> "swallow"
    [] OTHER -> mpc

StopMonitor ==
  /\ render_running' = FALSE
  /\ mpc' = Cancel
  /\ UNCHANGED mon_pub

\* One turn of the Phase A loop: the flag is polled; a missing audio file is
\* synthesized (generate_audio_sync writes it only for non-blank text and a
\* 200 answer).  After the last segment the monitor task is created.
TSynth ==
  /\ tpc = "synth"
  /\ IF si < Total
     THEN IF Stop
          THEN TRaise(MsgStopped) /\ UNCHANGED <<si, audio, audioBy, monVars>>
          ELSE /\ si' = si + 1
               /\ \/ /\ SynthKey(segs[si + 1], si) \notin audio
                     /\ segs[si + 1].text
                     /\ audio' = audio \cup {SynthKey(segs[si + 1], si)}
                     /\ audioBy' = audioBy \cup
                          {[key |-> SynthKey(segs[si + 1], si),
                            run |-> runs, pos |-> si]}
                  \/ UNCHANGED <<audio, audioBy>>
               /\ UNCHANGED <<tpc, t_exc, monVars>>
     ELSE /\ tpc' = "batch"
          /\ render_running' = TRUE
          /\ mpc' = "created"
          /\ UNCHANGED <<si, audio, audioBy, t_exc, mon_pub>>
  /\ UNCHANGED <<segs, mapKind, bi, batch_files, rpc, rk, clips, rret,
                 batchDisk, manifest, outputFile, runs, stop_signal, batchLog,
                 mergeExit>>
  /\ TaskFrame

\* Top of the Phase B loop: the flag is polled and render_batch is handed to
\* a thread; after the last batch, `if not batch_files: raise`.
TBatch ==
  /\ tpc = "batch"
  /\ IF bi < Total
     THEN IF Stop
          THEN TRaise(MsgStopped) /\ StopMonitor /\ UNCHANGED rpc
          ELSE /\ tpc' = "render" /\ rpc' = "entry"
               /\ UNCHANGED <<t_exc, monVars>>
     ELSE /\ IF batch_files = <<>>
             THEN TRaise(MsgNoSegments)
             ELSE tpc' = "merge" /\ UNCHANGED t_exc
          /\ StopMonitor
          /\ UNCHANGED rpc
  /\ UNCHANGED <<segs, mapKind, si, audio, bi, batch_files, rk, clips, rret,
                 batchDisk, manifest, outputFile, runs, stop_signal, taskHist>>
  /\ TaskFrame

\* ------------------------------------------------------------ render_batch
BatchIndex == (bi \div BATCH_SIZE) + 1

\* Mutant: the slice stops one segment short of the next batch.
BatchLast_Short == IF bi + BATCH_SIZE < Total THEN bi + BATCH_SIZE - 1 ELSE Total

\* Map position of the last segment of segments[i : i + BATCH_SIZE].
BatchLast == IF bi + BATCH_SIZE < Total THEN bi + BATCH_SIZE ELSE Total
\* segments[i : i + BATCH_SIZE]
BatchSegments == SubSeq(segs, bi + 1, BatchLast)

\* render_batch returns v (0 for None); why, and the processed_clips cs it
\* had built, are noted for the history.
RReturn(v, why, cs) ==
  /\ rret' = v
  /\ rpc' = "done"
  /\ batchLog' = Append(batchLog,
                        [batch |-> BatchIndex, clips |-> cs, result |-> why])

\* Entry of render_batch: the flag is polled; VideoFileClip(video_path)
\* opens the source or raises (outside the function's try).
REntry ==
  /\ rpc = "entry"
  /\ IF Stop
     THEN RReturn(0, "stopped", <<>>) /\ UNCHANGED <<rk, clips>>
     ELSE \/ /\ rpc' = "seg" /\ rk' = 0 /\ clips' = <<>>
             /\ UNCHANGED <<rret, batchLog>>
          \/ /\ rpc' = "raised"
             /\ UNCHANGED <<rk, clips, rret, batchLog>>
  /\ UNCHANGED <<tpc, segs, mapKind, si, audio, bi, batch_files, batchDisk,
                 manifest, outputFile, t_exc, runs, stop_signal, audioBy,
                 mergeExit>>
  /\ UNCHANGED monVars
  /\ TaskFrame

\* The segment of this turn can become a clip: its audio file exists and
\* start_t < end_t.
Renderable(seg, i) ==
  /\ RenderKey(seg, BatchIndex, i) \in audio
  /\ start_t(seg) < end_t(seg)

\* Mutant: the new clip is put before the clips already built.
AddClip_Front(cs, c) == <<c>> \o cs

\* processed_clips.append(final_chunk)
AddClip(cs, c) == Append(cs, c)

\* One turn of the segment loop: the flag is polled (the raise is caught at
\* the end of the function: return None); the clip is built and appended, or
\* the segment is skipped (no audio, start >= end, a clip error).  After the
\* last segment: no clips, return None.
RSeg ==
  /\ rpc = "seg"
  /\ IF rk < Len(BatchSegments)
     THEN IF Stop
          THEN RReturn(0, "stopped", clips) /\ UNCHANGED <<rk, clips>>
          ELSE /\ rk' = rk + 1
               /\ \/ /\ Renderable(BatchSegments[rk + 1], rk)
                     /\ clips' = AddClip(clips, bi + rk)
                  \/ UNCHANGED clips
               /\ UNCHANGED <<rpc, rret, batchLog>>
     ELSE /\ IF clips = <<>>
             THEN RReturn(0, "empty", clips)
             ELSE rpc' = "encode" /\ UNCHANGED <<rret, batchLog>>
          /\ UNCHANGED <<rk, clips>>
  /\ UNCHANGED <<tpc, segs, mapKind, si, audio, bi, batch_files, batchDisk,
                 manifest, outputFile, t_exc, runs, stop_signal, audioBy,
                 mergeExit>>
  /\ UNCHANGED monVars
  /\ TaskFrame

\* write_videofile: the logger callback polls the flag and raises (caught:
\* return None); the encode ends with the batch file, or fails (caught:
\* return None).  An interrupted encode may leave its file behind.
REncode ==
  /\ rpc = "encode"
  /\ IF Stop
     THEN /\ RReturn(0, "stopped", clips)
          /\ \E left \in BOOLEAN :
               batchDisk' = IF left THEN batchDisk \cup {BatchIndex} ELSE batchDisk
     ELSE \/ /\ RReturn(BatchIndex, "file", clips)
             /\ batchDisk' = batchDisk \cup {BatchIndex}
          \/ /\ RReturn(0, "failed", clips)
             /\ \E left \in BOOLEAN :
                  batchDisk' = IF left THEN batchDisk \cup {BatchIndex} ELSE batchDisk
  /\ UNCHANGED <<tpc, segs, mapKind, si, audio, bi, batch_files, rk, clips,
                 manifest, outputFile, t_exc, runs, stop_signal, audioBy,
                 mergeExit>>
  /\ UNCHANGED monVars
  /\ TaskFrame

\* await asyncio.to_thread(render_batch, ...) returns: the file is appended,
\* or, for None, the flag is polled; an exception of the thread is re-raised.
TBatchEnd ==
  /\ tpc = "render"
  /\ rpc \in {"done", "raised"}
  /\ rpc' = "none"
  /\ IF rpc = "raised"
     THEN TRaise(MsgCollab) /\ StopMonitor /\ UNCHANGED <<bi, batch_files>>
     ELSE IF rret # 0
          THEN /\ batch_files' = Append(batch_files, rret)
               /\ bi' = bi + BATCH_SIZE
               /\ tpc' = "batch"
               /\ UNCHANGED <<t_exc, monVars>>
          ELSE IF Stop
               THEN /\ TRaise(MsgStopped) /\ StopMonitor
                    /\ UNCHANGED <<bi, batch_files>>
               ELSE /\ bi' = bi + BATCH_SIZE
                    /\ tpc' = "batch"
                    /\ UNCHANGED <<t_exc, batch_files, monVars>>
  /\ UNCHANGED <<segs, mapKind, si, audio, rk, clips, rret, batchDisk,
                 manifest, outputFile, runs, stop_signal, taskHist>>
  /\ TaskFrame

\* status_callback("Final Stitching..."); the manifest is written and ffmpeg
\* is launched (the launch may raise).
TMergeStart ==
  /\ tpc = "merge"
  /\ manifest' = batch_files
  /\ \/ tpc' = "merging" /\ UNCHANGED t_exc
     \/ TRaise(MsgCollab)
  /\ UNCHANGED <<segs, mapKind, si, audio, bi, batch_files, rpc, rk, clips, rret,
                 batchDisk, outputFile, runs, stop_signal, taskHist>>
  /\ UNCHANGED monVars
  /\ TaskFrame

\* await process.communicate() (the exit code is not read); the batch files
\* and the manifest are removed; return output_path.
TMergeEnd ==
  /\ tpc = "merging"
  /\ \E made \in BOOLEAN, code \in {"zero", "nonzero"} :
       /\ code = "zero" => made
       /\ outputFile' = (outputFile \/ made)
       /\ mergeExit' = code
  /\ batchDisk' = batchDisk \ {batch_files[i] : i \in 1..Len(batch_files)}
  /\ manifest' = <<>>
  /\ tpc' = "returned"
  /\ UNCHANGED <<segs, mapKind, si, audio, bi, batch_files, rpc, rk, clips, rret,
                 t_exc, runs, stop_signal, audioBy, batchLog>>
  /\ UNCHANGED monVars
  /\ TaskFrame

\* The caller of the task specification: a job is held, its input video is
\* on disk, and process_video_task is about to be called.
InitTask ==
  /\ submitted = <<[user |-> 1, source |-> "telegram"]>>
  /\ task_queue = <<>>
  /\ is_processing = TRUE
  /\ current_task_info = 1
  /\ stop_signal = [j \in JobIds |-> FALSE]
  /\ wpc = "in_task"
  /\ cur = 1
  /\ exc = ""
  /\ proc = "none"
  /\ dl_fail = "none"
  /\ fb_calls = 0
  /\ chunks = 0
  /\ dl_ok = FALSE
  /\ mapFile = {1}
  /\ inputFile = [u \in Users |-> IF u = 1 THEN "complete" ELSE "none"]
  /\ started = <<1>>
  /\ drained = {}
  /\ ended = {}
  /\ terminal = [j \in JobIds |-> <<>>]
  /\ cause = [j \in JobIds |-> "none"]
  /\ collabFail = [j \in JobIds |-> FALSE]
  /\ leftover = [j \in JobIds |-> {}]
  /\ cancels = 0
  /\ progress = 0
  /\ user_sessions = [u \in Users |-> NoSession]
  /\ TaskIdle
  /\ UnitIdle

NextTask ==
  \/ \E m \in Maps : TaskCall(m, "ok")
  \/ TaskCall(<<>>, "bad")
  \/ TaskCancel
  \/ TLoad
  \/ TSynth
  \/ TBatch
  \/ REntry
  \/ RSeg
  \/ REncode
  \/ TBatchEnd
  \/ TMergeStart
  \/ TMergeEnd

SpecTask == InitTask /\ [][NextTask]_vars

\* --------------------------------------------------------- progress_monitor
MaxUpdates == 1

\* Everything the monitor leaves alone.
MonFrame ==
  /\ UNCHANGED <<tpc, segs, mapKind, si, audio, bi, batch_files, rpc, rk, clips,
                 rret, batchDisk, manifest, outputFile, t_exc, runs, taskHist,
                 render_running, stop_signal>>
  /\ TaskFrame

\* `while render_running:` and `if stop_signal: break`, then the sleep.
LoopTop == IF render_running /\ ~Stop THEN "sleep" ELSE "done"

\* The monitor task runs for the first time.
MStart ==
  /\ mpc = "created"
  /\ mpc' = LoopTop
  /\ UNCHANGED mon_pub
  /\ MonFrame

\* asyncio.sleep(3) returns: the text is new and status_callback is awaited,
\* or it is the text already shown and the loop goes round.
MWake ==
  /\ mpc = "sleep"
  /\ \/ /\ mon_pub < MaxUpdates
        /\ mpc' = "edit"
     \/ mpc' = LoopTop
  /\ UNCHANGED mon_pub
  /\ MonFrame

\* update_status_text: nothing when the stop flag is set; else the edit is
\* published, or raises and is dropped.  Then the loop goes round.
MEdit ==
  /\ mpc = "edit"
  /\ \/ /\ ~Stop
        /\ mon_pub' = mon_pub + 1
     \/ UNCHANGED mon_pub
  /\ mpc' = LoopTop
  /\ MonFrame

\* The cancelled edit returns into the monitor, whose loop test fails.
MSwallow ==
  /\ mpc = "swallow"
  /\ mpc' = LoopTop
  /\ UNCHANGED mon_pub
  /\ MonFrame

\* Maps for the task with its monitor: no segment, one segment, two batches.
MonMaps == {m \in ShortMaps : Len(m) <= 1 /\ \A i \in DOMAIN m : m[i] \in Plain}
             \cup LongMaps

NextMon ==
  \/ \E m \in MonMaps : TaskCall(m, "ok")
  \/ TaskCall(<<>>, "bad")
  \/ TaskCancel
  \/ TLoad
  \/ TSynth
  \/ TBatch
  \/ REntry
  \/ RSeg
  \/ REncode
  \/ TBatchEnd
  \/ TMergeStart
  \/ TMergeEnd
  \/ MStart
  \/ MWake
  \/ MEdit
  \/ MSwallow

SpecMon == InitTask /\ [][NextMon]_vars

\* ------------------------------------------------------------------- Next
Next ==
  \/ \E u \in Users, s \in Sources : Enqueue(u, s)
  \/ StopAll
  \/ WorkerGet
  \/ WStartEdit
  \/ WDlEdit
  \/ WTgDownload
  \/ DlSetup
  \/ DlLaunch
  \/ DlPoll
  \/ DlRead
  \/ DlProgress
  \/ DlCheck
  \/ DlSwitch
  \/ ProcWrite
  \/ ProcExit
  \/ FbGet
  \/ FbOpen
  \/ FbIter
  \/ WDlResult
  \/ WCheckStop
  \/ WProcess
  \/ WExcept
  \/ WCleanup
  \/ WFinally

Spec == Init /\ [][Next]_vars

\* ================================================= the collection sessions
\* Everything a handler of the collection leaves alone.
SessFrame ==
  /\ UNCHANGED <<submitted, task_queue, is_processing, current_task_info,
                 stop_signal, wpc, cur, exc, dlVars, mapFile, inputFile,
                 histVars, cause, collabFail, drained, cancels, progress>>
  /\ UNCHANGED taskVars

\* /start: a new session replaces whatever the submitter had.
Start(u) ==
  /\ user_sessions' = [user_sessions EXCEPT
                         ![u] = [state |-> "wait_json", source |-> "none"]]
  /\ SessFrame

\* handle_doc in STATE_WAIT_JSON: the map is saved.
HandleDoc(u) ==
  /\ user_sessions[u].state = "wait_json"
  /\ user_sessions' = [user_sessions EXCEPT ![u].state = "wait_video"]
  /\ SessFrame

\* handle_input in STATE_WAIT_VIDEO: a video message or a link is noted.
HandleVideo(u, s) ==
  /\ user_sessions[u].state = "wait_video"
  /\ user_sessions' = [user_sessions EXCEPT
                         ![u] = [state |-> "wait_name", source |-> s]]
  /\ SessFrame

\* handle_input in STATE_WAIT_NAME: the job is put on the queue and the
\* session becomes STATE_QUEUED.
HandleName(u) ==
  /\ user_sessions[u].state = "wait_name"
  /\ Put(u, user_sessions[u].source)
  /\ user_sessions' = [user_sessions EXCEPT ![u].state = "queued"]

\* The submitters send videos as Telegram messages.
NextSess ==
  \/ \E u \in Users : Start(u)
  \/ \E u \in Users : HandleDoc(u)
  \/ \E u \in Users : HandleVideo(u, "telegram")
  \/ \E u \in Users : HandleName(u)
  \/ StopAll
  \/ WorkerGet
  \/ WStartEdit
  \/ WDlEdit
  \/ WTgDownload
  \/ WCheckStop
  \/ WProcess
  \/ WExcept
  \/ WCleanup
  \/ WFinally

SpecSess == Init /\ [][NextSess]_vars

\* ============================================ render_batch: clip fitting
\* Durations are counted in tenths of a second: render_batch skips a slice
\* shorter than 0.1 s, so a fitted slice lasts at least one unit.
MaxDur == 60

\* ratio = audio_clip.duration / video_chunk.duration, compared exactly.
RatioAbove1(a, v) == a > v
RatioAbove1_5(a, v) == 2 * a > 3 * v

\* loop_count = int(ratio) + 1
LoopCount(a, v) == (a \div v) + 1

\* Smaller of two durations.
MinDur(x, y) == IF x < y THEN x ELSE y

\* The branch render_batch takes for audio duration a and slice duration v,
\* the repetitions of vfx.Loop, and the duration of final_chunk.
Fit(a, v) ==
  IF RatioAbove1(a, v)
  THEN IF RatioAbove1_5(a, v)
       THEN [mode |-> "loop", loops |-> LoopCount(a, v),
             duration |-> MinDur(LoopCount(a, v) * v, a)]
       ELSE [mode |-> "slow", loops |-> 0, duration |-> a]
  ELSE [mode |-> "trim", loops |-> 0, duration |-> MinDur(v, a)]

\* One clip is fitted.
FitClip ==
  /\ fitted.mode = "none"
  /\ fitted' = Fit(audio_dur, chunk_dur)
  /\ UNCHANGED <<audio_dur, chunk_dur, batches, content, loaded>>
  /\ UNCHANGED <<workerVars, stop_signal, tpc, segs, mapKind, si, audio, bi,
                 batch_files, rpc, rk, clips, rret, batchDisk, manifest,
                 outputFile, t_exc, runs, taskHist, monVars>>

\* Any audio duration against any slice duration.
InitFit ==
  /\ WorkerIdle
  /\ TaskIdle
  /\ audio_dur \in 1..MaxDur
  /\ chunk_dur \in 1..MaxDur
  /\ fitted = [mode |-> "none", loops |-> 0, duration |-> 0]
  /\ batches = <<>>
  /\ content = <<>>
  /\ loaded = NotLoaded

NextFit == FitClip

SpecFit == InitFit /\ [][NextFit]_vars

\* ======================================= process_video_task: partitioning
MaxTotal == 40

\* total_batches = (total + BATCH_SIZE - 1) // BATCH_SIZE
TotalBatches == (Total + BATCH_SIZE - 1) \div BATCH_SIZE

\* One turn of `for i in range(0, total, BATCH_SIZE)`: the slice is formed.
FormBatch ==
  /\ bi < Total
  /\ batches' = Append(batches, BatchSegments)
  /\ bi' = bi + BATCH_SIZE
  /\ UNCHANGED <<audio_dur, chunk_dur, fitted, content, loaded>>
  /\ UNCHANGED <<workerVars, stop_signal, tpc, segs, mapKind, si, audio,
                 batch_files, rpc, rk, clips, rret, batchDisk, manifest,
                 outputFile, t_exc, runs, taskHist, monVars>>

\* A map of any length; a segment is named by its position in the map.
InitBatch ==
  /\ WorkerIdle
  /\ tpc = "none"
  /\ segs \in {[i \in 1..n |-> i] : n \in 0..MaxTotal}
  /\ mapKind = "ok"
  /\ si = 0
  /\ audio = {}
  /\ bi = 0
  /\ batch_files = <<>>
  /\ rpc = "none"
  /\ rk = 0
  /\ clips = <<>>
  /\ rret = 0
  /\ batchDisk = {}
  /\ manifest = <<>>
  /\ outputFile = FALSE
  /\ t_exc = ""
  /\ runs = 0
  /\ audioBy = {}
  /\ batchLog = <<>>
  /\ mergeExit = "none"
  /\ mpc = "none"
  /\ render_running = FALSE
  /\ mon_pub = 0
  /\ UnitIdle

NextBatch == FormBatch

SpecBatch == InitBatch /\ [][NextBatch]_vars

\* ===================================================== load_and_heal_json
MaxContent == 3

\* What the file holds, piece by piece: well-formed text, a control character
\* inside a string, an unescaped quote inside an explanation_text value, or
\* a defect neither substitution touches (a trailing comma, a missing brace).
Pieces == {"ok", "control", "quote", "defect"}
Contents == UNION {[1..n -> Pieces] : n \in 0..MaxContent}

\* re.sub(r'[\x00-\x1f\x7f]', ' ', content)
StripControl(c) == [i \in DOMAIN c |-> IF c[i] = "control" THEN "ok" ELSE c[i]]

\* re.sub of the explanation_text value with its inner quotes escaped
EscapeQuotes(c) == [i \in DOMAIN c |-> IF c[i] = "quote" THEN "ok" ELSE c[i]]

\* json.loads(content) returns (an empty file is not a JSON document).
Parses(c) == c # <<>> /\ \A i \in DOMAIN c : c[i] = "ok"

\* The message of the JSONDecodeError json.loads raises: for the first piece
\* that is not well formed.
Diagnostic(c) ==
  IF c = <<>> THEN "Expecting value"
  ELSE LET i == CHOOSE j \in DOMAIN c :
                  c[j] # "ok" /\ \A k \in 1..(j - 1) : c[k] = "ok"
       IN CASE c[i] = "control" -> "Invalid control character"
            [] c[i] = "quote" -> "Expecting ',' delimiter"
            [] OTHER -> "Expecting property name"

\* The value of load_and_heal_json(file_path), or the ValueError it raises;
\* `diagnostic` is what the last json.loads that failed reported.
LoadAndHealJson(c) ==
  IF Parses(c)
  THEN [result |-> "parsed", message |-> <<>>, diagnostic |-> ""]
  ELSE LET healed == EscapeQuotes(StripControl(c))
       IN IF Parses(healed)
          THEN [result |-> "parsed", message |-> <<>>,
                diagnostic |-> Diagnostic(c)]
          ELSE [result |-> "error", message |-> <<MsgJson>>,
                diagnostic |-> Diagnostic(healed)]

LoadMap ==
  /\ loaded.result = "none"
  /\ loaded' = LoadAndHealJson(content)
  /\ UNCHANGED <<audio_dur, chunk_dur, fitted, batches, content>>
  /\ UNCHANGED <<workerVars, stop_signal, tpc, segs, mapKind, si, audio, bi,
                 batch_files, rpc, rk, clips, rret, batchDisk, manifest,
                 outputFile, t_exc, runs, taskHist, monVars>>

InitHeal ==
  /\ WorkerIdle
  /\ TaskIdle
  /\ audio_dur = 0
  /\ chunk_dur = 0
  /\ fitted = [mode |-> "none", loops |-> 0, duration |-> 0]
  /\ batches = <<>>
  /\ content \in Contents
  /\ loaded = NotLoaded

NextHeal == LoadMap

SpecHeal == InitHeal /\ [][NextHeal]_vars

\* ================================================================= claims

\* C1: a job the worker dequeues, with no cancel_all and no collaborator
\* failure, goes through the whole pipeline and delivers the output file:
\* when it has ended, its one terminal message is the success message.
C1_Claim ==
  \A j \in ended :
    (~stop_signal[j] /\ ~collabFail[j]) => terminal[j] = <<"success">>

\* C2: jobs are started in the order they were enqueued (job ids grow with
\* the enqueue order), each at most once, and a job is started only after
\* every job started before it has ended, so at most one job is in flight.
C2_FifoOneAtATime ==
  /\ \A i, k \in 1..Len(started) : i < k => started[i] < started[k]
  /\ \A i \in 1..Len(started) : i < Len(started) => started[i] \in ended
  /\ is_processing =>
       /\ Len(started) > 0
       /\ current_task_info = started[Len(started)]
       /\ current_task_info \notin ended

C2_Witness ==
  /\ Len(started) = 2
  /\ cancels > 0
  /\ is_processing

\* C3: a stop_all step leaves the queue empty and, if a job is in flight,
\* that job's stop flag true, in one step; and no job that stop_all removed
\* from the queue is ever started.
C3_CancelAllAtomic ==
  /\ [][cancels' # cancels =>
          /\ task_queue' = <<>>
          /\ is_processing => stop_signal'[current_task_info]]_vars
  /\ [](\A i \in 1..Len(started) : started[i] \notin drained)

C3_Witness ==
  /\ cancels > 0
  /\ drained # {}
  /\ is_processing
  /\ stop_signal[current_task_info]
  /\ task_queue = <<>>

\* C4: a job whose stop flag was set while it was in flight terminates as
\* stopped: process_video_task never completes normally (returning the
\* output file for delivery) with the flag set.
C4_Claim == tpc = "returned" => ~Stop

\* C5: a job that ended because the stop flag was observed gets the stop
\* notice, never the generic error message, and a job that ended for any
\* other reason never gets the stop notice.
C5_Claim ==
  \A j \in JobIds : \A i \in 1..Len(terminal[j]) :
    (cause[j] = "cancel") <=> (terminal[j][i] = "stopped")

\* C6: whatever fails inside a job or inside the reporting of its failure,
\* the worker loop never terminates.
C6_Claim == wpc # "dead"

\* C7: every job the worker dequeued has received exactly one terminal
\* message when it has ended.
C7_Claim == \A j \in ended : Len(terminal[j]) = 1

\* C8: when a dequeued job has ended, none of its temporary artifacts is
\* left on disk.
C8_Claim == \A j \in ended : leftover[j] = {}

\* C9: in download_from_link, once the primary download process has exited
\* with a non-zero code or has failed to launch, the fallback has been called
\* exactly once by the time the call returns, and never twice.
C9_Claim ==
  /\ fb_calls <= 1
  /\ (wpc = "dl_ret" /\ (proc = "exitN" \/ dl_fail = "launch")) => fb_calls = 1

\* C9 as amended: the fallback is never called twice; when the launch raised,
\* or the return-code check after the end of the process's output found a
\* failure (no stop flag having been seen by the read loop before), the
\* fallback has been called exactly once by the time the call returns, also
\* when the status edit between the two raised; the fallback runs only after
\* such a failure; and the call never raises: no collaborator exception
\* reaches the worker's handler from a download.
C9_FallbackExactlyOnce ==
  /\ fb_calls <= 1
  /\ (wpc = "dl_ret" /\ dl_fail # "none") => fb_calls = 1
  /\ (wpc \in {"fb_get", "fb_open", "fb_iter"}) => (fb_calls = 1 /\ dl_fail # "none")
  /\ exc = MsgCollab => (fb_calls = 0 /\ proc = "none")

C9_Witness ==
  /\ wpc = "dl_ret"
  /\ dl_fail = "exit"
  /\ fb_calls = 1
  /\ ~dl_ok
  /\ collabFail[cur]

\* C10: when download_from_link returns failure the destination path holds
\* no partially written file, and when it returns success the destination
\* path holds the complete file.
C10_Claim ==
  wpc = "dl_ret" =>
    IF dl_ok THEN inputFile[User(cur)] = "complete"
             ELSE inputFile[User(cur)] # "partial"

\* C12: a segment whose audio is more than 1.5 times as long as its video
\* slice has the slice repeated exactly ceil(A / V) times; audio of 6 s on a
\* slice of 3 s gives 2 repetitions.
C12_Claim ==
  fitted.mode = "loop" =>
    fitted.loops = (audio_dur + chunk_dur - 1) \div chunk_dur

\* The batches formed so far, one after the other.
RECURSIVE Flatten(_)
Flatten(bs) == IF bs = <<>> THEN <<>> ELSE bs[1] \o Flatten(Tail(bs))

\* The least k with k * b >= n.
CeilDiv(n, b) == CHOOSE k \in 0..n : k * b >= n /\ (k = 0 \/ (k - 1) * b < n)

\* C13: for a map of total segments and batch size 10, the Phase B loop
\* forms exactly ceil(total / 10) batches (the number total_batches states),
\* every batch but the last has exactly 10 segments, the last has between 1
\* and 10, and the batches in order make up the map's segment sequence.
C13_Partition ==
  /\ Flatten(batches) = SubSeq(segs, 1, IF bi < Total THEN bi ELSE Total)
  /\ \A k \in 1..Len(batches) :
       /\ Len(batches[k]) >= 1
       /\ Len(batches[k]) <= BATCH_SIZE
       /\ k < CeilDiv(Total, BATCH_SIZE) => Len(batches[k]) = BATCH_SIZE
  /\ bi >= Total =>
       /\ Len(batches) = CeilDiv(Total, BATCH_SIZE)
       /\ Len(batches) = TotalBatches

C13_Witness ==
  /\ bi >= Total
  /\ Total = BATCH_SIZE + 2
  /\ Len(batches) = 2
  /\ Len(batches[1]) = BATCH_SIZE
  /\ Len(batches[2]) = 2

\* C14: when the map cannot be parsed after the recovery passes, the error
\* load_and_heal_json raises has a message that contains the diagnostic of
\* the last parse attempt.
C14_Claim ==
  loaded.result = "error" =>
    \E i \in DOMAIN loaded.message : loaded.message[i] = loaded.diagnostic

\* A timestamp field that is present and well formed: two or three numeric
\* parts.
ValidStamp(field) ==
  /\ field.present
  /\ Len(field.parts) \in {2, 3}
  /\ \A i \in DOMAIN field.parts : field.parts[i] # NaN

\* The segment is one that must be skipped: blank text, a missing or invalid
\* timestamp, or a start that is not before the end.
MustSkip(seg) ==
  \/ ~seg.text
  \/ ~ValidStamp(seg.start)
  \/ ~ValidStamp(seg.end)
  \/ ~(parse_time(seg.start.parts) < parse_time(seg.end.parts))

\* C11: a segment whose start_time is not before its end_time, or whose
\* start_time or end_time is missing or not a valid timestamp, or whose text
\* is blank, never contributes a clip to a rendered batch, whatever the map
\* and the earlier calls.
C11_Claim == \A i \in 1..Len(clips) : ~MustSkip(segs[clips[i] + 1])

\* C15: a segment without an id field is looked up by render_batch under
\* the name Phase A synthesized its audio under (its position in the map),
\* in every batch.
C15_Claim ==
  (rpc = "seg" /\ rk < Len(BatchSegments) /\ BatchSegments[rk + 1].id = NoId) =>
    RenderKey(BatchSegments[rk + 1], BatchIndex, rk)
      = SynthKey(BatchSegments[rk + 1], bi + rk)

\* C16: the audio of every clip of a call was synthesized during that call
\* for the segment of that clip, never left by an earlier call or written
\* for another segment with the same id.
C16_Claim ==
  \A i \in 1..Len(clips) :
    [key |-> RenderKey(segs[clips[i] + 1], BatchIndex, clips[i] - bi),
     run |-> runs, pos |-> clips[i]] \in audioBy

\* C17: when the encode of a batch or the merge failed for a reason other
\* than cancellation, process_video_task does not return the output path.
C17_Claim ==
  tpc = "returned" =>
    /\ \A i \in DOMAIN batchLog : batchLog[i].result # "failed"
    /\ mergeExit = "zero"

\* The batch indexes in a sequence of batch files.
InFiles(b) == \E i \in DOMAIN batch_files : batch_files[i] = b

\* C18: without cancellation, a batch whose segments were all skipped is not
\* in the merge list and the call goes on; the call raises the 'no segments'
\* error exactly when every batch was empty.
C18_Claim ==
  ~Stop =>
    /\ \A i \in DOMAIN batchLog :
         batchLog[i].result = "empty" => ~InFiles(batchLog[i].batch)
    /\ (tpc = "raised" /\ t_exc = MsgNoSegments) =>
         \A i \in DOMAIN batchLog : batchLog[i].result = "empty"
    /\ (/\ tpc \in {"merge", "merging", "returned", "raised"}
        /\ mapKind = "ok"
        /\ Len(batchLog) = TotalBatches
        /\ \A i \in DOMAIN batchLog : batchLog[i].result = "empty")
         => (tpc = "raised" /\ t_exc = MsgNoSegments)

\* The sequence has no element before a smaller or equal one.
Increasing(q) == \A i, j \in DOMAIN q : i < j => q[i] < q[j]

\* The batches that gave a file, in the order render_batch returned them.
Files == SelectSeq(batchLog, LAMBDA e : e.result = "file")

\* The map positions of the clips in the files of Files, file after file.
RECURSIVE ClipsOf(_)
ClipsOf(log) == IF log = <<>> THEN <<>> ELSE log[1].clips \o ClipsOf(Tail(log))

\* C19: the merge list and the manifest written from it name the batch files
\* in increasing batch index without duplicates, each of them the file of a
\* batch that was encoded; the clips of a batch are in map order and belong
\* to that batch's slice, so the clips of the listed files, one file after
\* the other, are in map order.
C19_Order ==
  /\ Increasing(batch_files)
  /\ Increasing(manifest)
  /\ tpc = "merging" => manifest = batch_files
  /\ rpc # "done" => batch_files = [i \in DOMAIN Files |-> Files[i].batch]
  /\ Increasing(clips)
  /\ \A i \in DOMAIN batchLog :
       \A k \in DOMAIN batchLog[i].clips :
         batchLog[i].clips[k] \div BATCH_SIZE = batchLog[i].batch - 1
  /\ Increasing(ClipsOf(Files))

C19_Witness ==
  /\ tpc = "merging"
  /\ manifest = <<1, 2>>
  /\ ClipsOf(Files) = <<0, BATCH_SIZE, BATCH_SIZE + 1>>

\* download_from_link has returned because its read loop saw the stop flag.
StopObserved == wpc = "dl_ret" /\ cause[cur] = "cancel" /\ dl_fail = "none"

\* C20: when the read loop of the primary download sees the stop flag, the
\* process is killed (none is left running) and download_from_link returns
\* failure with the fallback never called; from the kill on no progress
\* update of the download is published.
C20_KillAtOnce ==
  /\ [](StopObserved => (proc # "running" /\ ~dl_ok /\ fb_calls = 0))
  /\ [](proc = "killed" => (fb_calls = 0 /\ ~dl_ok /\ wpc \notin
          {"dl_poll", "dl_read", "dl_progress", "dl_wait", "dl_switch",
           "fb_get", "fb_open", "fb_iter"}))
  /\ [][(proc = "killed" /\ proc' = "killed") => progress' = progress]_vars

C20_Witness ==
  /\ StopObserved
  /\ proc = "killed"
  /\ progress = 1
  /\ fb_calls = 0

PhaseB == tpc \in {"batch", "render"}

\* C21: the progress monitor is alive only during Phase B (it is ended by
\* the loop's finally whether the loop ends by success, error or
\* cancellation), and it publishes a status update only during Phase B:
\* none after 'Final Stitching', none after the call has returned or raised.
C21_MonitorInPhaseB ==
  /\ [](mpc \in {"created", "sleep", "edit"} => (PhaseB /\ render_running))
  /\ [](mpc = "none" => tpc \in {"none", "load", "synth", "raised"})
  /\ [][mon_pub' > mon_pub => (PhaseB /\ PhaseB')]_vars

C21_Witness ==
  /\ tpc = "merging"
  /\ mpc = "done"
  /\ mon_pub = 1
  /\ ~Stop

\* C22: a job's stop flag is false when the worker starts the job, goes
\* from false to true only while that job is the one in flight, and never
\* back; so a stop_all that runs while no job is in flight (or before a job
\* is enqueued) does not stop a job started later.
C22_ScopedCancel ==
  /\ [][\A j \in JobIds :
          (~stop_signal[j] /\ stop_signal'[j]) =>
            (is_processing /\ current_task_info = j /\ cur = j /\ j \notin ended)]_vars
  /\ [][\A j \in JobIds : (cur' = j /\ cur # j) => ~stop_signal'[j]]_vars
  /\ [][\A j \in JobIds : stop_signal[j] => stop_signal'[j]]_vars
  /\ [](\A j \in JobIds : stop_signal[j] => \E i \in DOMAIN started : started[i] = j)

C22_Witness ==
  /\ drained = {1}
  /\ started = <<2>>
  /\ 2 \in ended
  /\ ~stop_signal[2]
  /\ cause[2] # "cancel"

\* The submitter has begun a new submission: start, map or video received.
Collecting(u) == user_sessions[u].state \in {"wait_json", "wait_video", "wait_name"}

\* C23: the end of a job leaves a new session of the same submitter, begun
\* while the job was queued or running, and its collected inputs as they are.
C23_Claim ==
  [][ended' # ended =>
       (Collecting(User(cur)) =>
          user_sessions'[User(cur)] = user_sessions[User(cur)])]_vars

====
